---- MODULE Spec2Model ----
(***************************************************************************)
(* assignee-finder: the fetch / paginate / filter / aggregate procedures   *)
(* of src/assignee_finder/pagure.py and src/assignee_finder/github.py, and *)
(* the commands of src/assignee_finder/main.py that call them.             *)
(*                                                                         *)
(* Spec: one behaviour is one adapter call (one of the eight get_*         *)
(* functions) over the configured subjects.  The remote forge is the       *)
(* environment: it answers every request with a status code and, on        *)
(* success, a page of raw items and a next-page cursor.                    *)
(* PageSpec: one call of a Pagure page function.  LegacySpec: one call of  *)
(* get_github_tickets of src/assignee-finder/assignee_finder.py.           *)
(* CmdSpec: one run of a command of src/assignee_finder/main.py, its       *)
(* adapter calls followed by the printing of the report.                   *)
(*                                                                         *)
(* Time is counted in ticks, TicksPerDay ticks to the day.  JSON null and  *)
(* Python None are the value Absent; every timestamp is >= 1.              *)
(***************************************************************************)
EXTENDS Integers, Sequences, FiniteSets, TLC

\* ------------------------------------------------------------------ bounds
MaxPages == 2        \* pages the remote serves for one subject
MaxPageItems == 2    \* raw items on one page
MaxRawItems == 3     \* raw items the remote serves during one behaviour
MaxTime == 3         \* latest timestamp carried by a raw item

\* ----------------------------------------------------------- configuration
Absent == 0
TicksPerDay == 2

Users == <<"alice", "bob">>
Repos == <<"repoA", "repoB">>

PagureUrl == <<"p">>
PagureExcludes == << <<"p", "a", "1", "z">>, <<"p", "x">> >>
GitHubExcludes == << <<"g", "a", "1", "z">>, <<"g", "x">> >>

PagureShapes == {"get_pagure_tickets", "get_pagure_tickets_repos",
                 "get_pagure_pull_requests", "get_pagure_pull_requests_repos"}
GitHubShapes == {"get_github_tickets", "get_github_tickets_repos",
                 "get_github_pull_request", "get_github_pull_requests_repos"}
Shapes == PagureShapes \cup GitHubShapes

IssueShapes == {"get_pagure_tickets", "get_pagure_tickets_repos"}
UserShapes == {"get_pagure_tickets", "get_pagure_pull_requests",
               "get_github_tickets", "get_github_pull_request"}

\* the subjects an adapter iterates over
SubjectsOf(sh) == IF sh \in UserShapes THEN Users ELSE Repos

\* ------------------------------------------------------------ environment
\* status codes the remote answers with; below 300 the body is a page
StatusCodes == {200, 203, 500}
Reason(code) ==
    CASE code = 200 -> "OK"
      [] code = 203 -> "Non-Authoritative Information"
      [] OTHER -> "Internal Server Error"

\* the success class of HTTP
Is2xx(code) == code >= 200 /\ code < 300

Times == 1..MaxTime
TimesOrAbsent == {Absent} \cup Times
DaysAgoOpts == {1}
TillOpts == {Absent, 1}      \* --till: not given, or a date (a day number)
NowOpts == {4}               \* what arrow.utcnow() reads

Titles == {"T"}
IssueUrls == { <<"p", "a", "1">>, <<"p", "x", "1">> }

\* comments of an issue: a notification naming the assignment, dated or not,
\* a user's comment with the same words, a notification about something else
Assigned(date) ==
    [notification |-> TRUE, comment |-> <<"issue", "assigned">>,
     date_created |-> date]
UserComment == [notification |-> FALSE, comment |-> <<"assigned">>,
                date_created |-> MaxTime]
OtherNotification == [notification |-> TRUE, comment |-> <<"issue", "closed">>,
                      date_created |-> MaxTime]
CommentLists ==
    { <<>>,
      <<Assigned(MaxTime - 1), Assigned(MaxTime)>>,
      <<Assigned(MaxTime), UserComment>>,
      <<Assigned(MaxTime), OtherNotification>>,
      <<Assigned(MaxTime - 1), Assigned(Absent)>>,
      <<UserComment>> }

\* raw items a Pagure issue page may hold; comments are served on issues the
\* normalizer keeps (created, not excluded, open or closed at tick 2)
IssuePageItems ==
    { i \in [title: Titles, full_url: IssueUrls, status: {"Open", "Closed"},
             closed_at: TimesOrAbsent, date_created: {Absent, 1},
             comments: CommentLists] :
        i.comments # <<>> =>
          /\ i.full_url = <<"p", "a", "1">>
          /\ i.date_created = 1
          /\ i.closed_at = (IF i.status = "Open" THEN Absent ELSE 2) }

\* raw items of the Pagure issue listings served to the pagination loops
IssueItems == { i \in IssuePageItems : i.comments = <<>> }

\* raw items a Pagure pull-request page may hold
PullRequestPageItems ==
    [title: Titles, url_path: {<<"a">>, <<"x">>}, id: {1},
     status: {"Open", "Merged"}, closed_at: TimesOrAbsent,
     date_created: {Absent, 1}]

\* raw items of the Pagure pull-request listings served to the pagination
\* loops
PullRequestItems == { p \in PullRequestPageItems : p.date_created = 1 }

\* nodes of the GitHub search / repository queries
GitHubUrls == { <<"g", "a", "1">>, <<"g", "x", "1">> }
OpenNodes == [title: Titles, url: GitHubUrls, state: {"OPEN"}]
ClosedNodes == [title: Titles, url: GitHubUrls, state: {"CLOSED", "MERGED"},
                closedAt: TimesOrAbsent]

\* every sequence over S of length at most n
SeqsUpTo(S, n) == UNION { [1..k -> S] : k \in 0..n }

\* --------------------------------------------------------- pure functions
\* Python truthiness of a timestamp, a cursor or a date string
Truthy(x) == x # Absent

\* str.startswith
StartsWith(s, prefix) ==
    /\ Len(prefix) <= Len(s)
    /\ SubSeq(s, 1, Len(prefix)) = prefix

\* the `for exclude in excludes` loop: first match sets excluded and breaks
RECURSIVE ExcludedFrom(_, _, _)
ExcludedFrom(url, excludes, i) ==
    IF i > Len(excludes) THEN FALSE
    ELSE IF StartsWith(url, excludes[i]) THEN TRUE
    ELSE ExcludedFrom(url, excludes, i + 1)

\* only the first configured prefix is looked at
IsExcludedFirstOnly(url, excludes) ==
    Len(excludes) > 0 /\ StartsWith(url, excludes[1])

IsExcluded(url, excludes) == ExcludedFrom(url, excludes, 1)

\* arrow.get(till, "DD.MM.YYYY"): midnight of that day
ParseDate(day) == day * TicksPerDay

\* till / since as every adapter derives them on entry
DeriveTill(till_arg, clock) ==
    IF Truthy(till_arg) THEN ParseDate(till_arg) ELSE clock

DeriveSince(t, days) == t - days * TicksPerDay

\* the bounds themselves are outside
OutsideWindowOpenEnds(closed_at, s, t) == closed_at <= s \/ closed_at >= t

\* `closed_at < since or closed_at > till`
OutsideWindow(closed_at, s, t) == closed_at < s \/ closed_at > t

\* `"assigned" in comment["comment"]`, the text being a sequence of words
Contains(text, word) == \E i \in 1..Len(text) : text[i] = word

\* the reversed(issue["comments"]) scan of get_issues_page_data
RECURSIVE ScanAssigned(_, _)
ScanAssigned(comments, i) ==
    IF i < 1 THEN Absent
    ELSE IF comments[i].notification /\ Contains(comments[i].comment, "assigned")
         THEN comments[i].date_created
         ELSE ScanAssigned(comments, i - 1)

\* the creation date is not fallen back to
AssignedAtNoFallback(issue) ==
    ScanAssigned(issue.comments, Len(issue.comments))

\* the scan, then `if not assigned_at: assigned_at = issue["date_created"]`
AssignedAt(issue) ==
    LET found == ScanAssigned(issue.comments, Len(issue.comments))
    IN  IF ~Truthy(found) THEN issue.date_created ELSE found

\* is the issue kept by the per-item filters of get_issues_page_data
IssueKept(issue, s, t) ==
    /\ Truthy(issue.date_created)
    /\ ~IsExcluded(issue.full_url, PagureExcludes)
    /\ (issue.status = "Closed" =>
          /\ Truthy(issue.closed_at)
          /\ ~OutsideWindow(issue.closed_at, s, t))

IssueEntry(issue) ==
    [title |-> issue.title, full_url |-> issue.full_url,
     status |-> issue.status, assigned |-> AssignedAt(issue)]

\* the `for issue in issues` loop
RECURSIVE IssuesLoop(_, _, _, _, _)
IssuesLoop(issues, i, acc, s, t) ==
    IF i > Len(issues) THEN acc
    ELSE IF IssueKept(issues[i], s, t)
         THEN IssuesLoop(issues, i + 1, Append(acc, IssueEntry(issues[i])), s, t)
         ELSE IssuesLoop(issues, i + 1, acc, s, t)

\* `full_url = pagure_url + project.url_path + "/pull-request/" + str(id)`
StrOf(n) == IF n = 1 THEN "1" ELSE "2"

FullUrl(pull_request) ==
    PagureUrl \o pull_request.url_path \o <<"/pull-request/">>
              \o <<StrOf(pull_request.id)>>

\* is the pull request kept by the per-item filters of
\* get_pull_requests_page_data
PullRequestKept(pull_request, s, t) ==
    /\ ~IsExcluded(FullUrl(pull_request), PagureExcludes)
    /\ (Truthy(pull_request.closed_at) =>
          ~OutsideWindow(pull_request.closed_at, s, t))

PullRequestEntry(pull_request) ==
    [title |-> pull_request.title, full_url |-> FullUrl(pull_request),
     status |-> pull_request.status]

\* the `for pull_request in page["requests"]` loop
RECURSIVE PullRequestsLoop(_, _, _, _, _)
PullRequestsLoop(prs, i, acc, s, t) ==
    IF i > Len(prs) THEN acc
    ELSE IF PullRequestKept(prs[i], s, t)
         THEN PullRequestsLoop(prs, i + 1,
                               Append(acc, PullRequestEntry(prs[i])), s, t)
         ELSE PullRequestsLoop(prs, i + 1, acc, s, t)

\* requests.codes.ok
PagureOk(code) == code = 200

\* `data["total"] = len(data[...])`
PageTotal(records) == Len(records)

\* get_issues_page_data: resp is the remote's answer
GetIssuesPageData(resp, t, s) ==
    LET issues == IF PagureOk(resp.status_code)
                  THEN IssuesLoop(resp.items, 1, <<>>, s, t) ELSE <<>>
    IN  [records |-> issues,
         next_page |-> IF PagureOk(resp.status_code) THEN resp.next ELSE Absent,
         total |-> PageTotal(issues)]

\* get_pull_requests_page_data: "total" is set only inside the status check
GetPullRequestsPageData(resp, t, s) ==
    IF PagureOk(resp.status_code)
    THEN LET prs == PullRequestsLoop(resp.items, 1, <<>>, s, t)
         IN  [records |-> prs, next_page |-> resp.next,
              total |-> PageTotal(prs)]
    ELSE [records |-> <<>>, next_page |-> Absent]

EmptyData == [records |-> <<>>, total |-> 0]

\* the page is put in front of what was accumulated
FoldRecordsPrepends(d, page) == page.records \o d.records

\* the accumulating statements of the `while next_page` loops
FoldRecords(d, page) == d.records \o page.records
\* the page count replaces the running count instead of being added to it
FoldTotalOverwrites(d, page) == page.total

FoldTotal(d, page) == d.total + page.total

\* the loop keeps the url it has while the page announces a further one
AdvanceCursorKeeps(cur, page) == IF Truthy(page.next_page) THEN cur ELSE Absent

\* `next_page = page_data["next_page"]`
AdvanceCursor(cur, page) == page.next_page

\* resp.ok: raise_for_status() does not raise, i.e. not a 4xx or 5xx
GitHubOk(code) == ~(code >= 400 /\ code < 600)

\* the click.echo(..., err=True) line
Diagnostic(code) == <<"Github request failed with status", code, Reason(code)>>

NodeEntry(node) ==
    [title |-> node.title, full_url |-> node.url, status |-> node.state]

\* the edge loop of get_open_github_tickets / get_open_github_pull_requests
RECURSIVE OpenLoop(_, _, _)
OpenLoop(edges, i, acc) ==
    IF i > Len(edges) THEN acc
    ELSE IF IsExcluded(edges[i].url, GitHubExcludes)
         THEN OpenLoop(edges, i + 1, acc)
         ELSE OpenLoop(edges, i + 1, Append(acc, NodeEntry(edges[i])))

\* `closed_at > till or closed_at < since` (repository queries)
SkipClosedRepo(closed_at, s, t) == closed_at > t \/ closed_at < s
\* `closed_at > till` (user queries)
SkipClosedUser(closed_at, s, t) == closed_at > t

\* the edge loop of the four get_closed_github_* functions;
\* arrow.get(None) raises TypeError (arrow 1.x)
RECURSIVE ClosedLoop(_, _, _, _, _, _)
ClosedLoop(edges, i, acc, s, t, repo) ==
    IF i > Len(edges) THEN [err |-> "none", records |-> acc]
    ELSE IF ~Truthy(edges[i].closedAt)
         THEN [err |-> "TypeError", records |-> acc]
    ELSE IF IF repo THEN SkipClosedRepo(edges[i].closedAt, s, t)
                    ELSE SkipClosedUser(edges[i].closedAt, s, t)
         THEN ClosedLoop(edges, i + 1, acc, s, t, repo)
    ELSE IF IsExcluded(edges[i].url, GitHubExcludes)
         THEN ClosedLoop(edges, i + 1, acc, s, t, repo)
    ELSE ClosedLoop(edges, i + 1, Append(acc, NodeEntry(edges[i])), s, t, repo)

\* get_open_github_tickets / get_open_github_pull_requests
GetOpenGitHub(resp) ==
    IF GitHubOk(resp.status_code)
    THEN [err |-> "none", records |-> OpenLoop(resp.items, 1, <<>>),
          diag |-> <<>>]
    ELSE [err |-> "none", records |-> <<>>,
          diag |-> <<Diagnostic(resp.status_code)>>]

\* get_closed_github_tickets(_repo) / get_closed_github_pull_requests(_repo)
GetClosedGitHub(resp, t, s, repo) ==
    IF GitHubOk(resp.status_code)
    THEN LET r == ClosedLoop(resp.items, 1, <<>>, s, t, repo)
         IN  [err |-> r.err, records |-> r.records, diag |-> <<>>]
    ELSE [err |-> "none", records |-> <<>>,
          diag |-> <<Diagnostic(resp.status_code)>>]

\* `user_data["total"] = len(open_issues) + len(closed_issues)`
UserTotal(open, closed) == Len(open) + Len(closed)

\* what the remote may answer: a page of at most n (and at most MaxPageItems)
\* items drawn from ItemSet with a next cursor from Cursors, or a failure
\* without a page
Responses(ItemSet, n, Cursors) ==
    { [status_code |-> c, items |-> it, next |-> nx] :
        c \in {x \in StatusCodes : x < 300},
        it \in SeqsUpTo(ItemSet, IF n < MaxPageItems THEN n ELSE MaxPageItems),
        nx \in Cursors }
    \cup
    { [status_code |-> c, items |-> <<>>, next |-> Absent] :
        c \in {x \in StatusCodes : x >= 300} }

\* ------------------------------------------------------------------ state
VARIABLES shape, days_ago, till_arg, now, till, since,
          pc, idx, next_page, data, page_data, open_items, output,
          stderr, err, requests, status_code, raw, served,
          command, enabled, remote, queue, results, windows, stdout

\* the state of the command that makes the adapter calls: its name, the
\* platforms enabled in the configuration, the forge it talks to, the adapter
\* calls still to make, what the calls returned, the window each call
\* derived, and the lines printed
cmd_vars == <<command, enabled, remote, queue, results, windows, stdout>>

vars == <<shape, days_ago, till_arg, now, till, since,
          pc, idx, next_page, data, page_data, open_items, output,
          stderr, err, requests, status_code, raw, served, cmd_vars>>

\* an adapter, or a page function, called on its own
NoCommand ==
    /\ command = "none"
    /\ enabled = {}
    /\ remote = "any"
    /\ queue = <<>>
    /\ results = [x \in {} |-> [y \in {} |-> EmptyData]]
    /\ windows = <<>>
    /\ stdout = <<>>

\* an item as a small forge serves it: not excluded, created, an open item
\* without closing time, a closed or merged one closed at tick 2
Plain(item) ==
    /\ "full_url" \in DOMAIN item => item.full_url = <<"p", "a", "1">>
    /\ "url_path" \in DOMAIN item => item.url_path = <<"a">>
    /\ "url" \in DOMAIN item => item.url = <<"g", "a", "1">>
    /\ "date_created" \in DOMAIN item => item.date_created = 1
    /\ "closed_at" \in DOMAIN item =>
          item.closed_at = (IF item.status = "Open" THEN Absent ELSE 2)
    /\ "closedAt" \in DOMAIN item => item.closedAt = 2

\* the items of a listing the forge in use can serve
Catalogue(ItemSet) ==
    IF remote = "any" THEN ItemSet ELSE { x \in ItemSet : Plain(x) }

Subjects == IF shape \in Shapes THEN SubjectsOf(shape) ELSE Users
subject == Subjects[idx]

Init ==
    /\ shape \in Shapes
    /\ NoCommand
    /\ days_ago \in DaysAgoOpts
    /\ till_arg \in TillOpts
    /\ now \in NowOpts
    /\ till = Absent
    /\ since = Absent
    /\ pc = "entry"
    /\ idx = 0
    /\ next_page = Absent
    /\ data = EmptyData
    /\ page_data = EmptyData
    /\ open_items = <<>>
    /\ output = [x \in {} |-> EmptyData]
    /\ stderr = <<>>
    /\ err = "none"
    /\ requests = <<>>
    /\ status_code = Absent
    /\ raw = <<>>
    /\ served = 0

\* `output[subject] = data`
Store(out, s, d) ==
    [x \in DOMAIN out \cup {s} |-> IF x = s THEN d ELSE out[x]]

\* the cursors a page of the chain may carry: none, or the following page
NextCursors(k) == {Absent} \cup (IF k < MaxPages THEN {k + 1} ELSE {})

\* adapter entry: the window is derived from --till / utcnow and --days-ago
Enter ==
    /\ pc = "entry"
    /\ till' = DeriveTill(till_arg, now)
    /\ since' = DeriveSince(DeriveTill(till_arg, now), days_ago)
    /\ pc' = "for"
    /\ UNCHANGED <<cmd_vars, shape, days_ago, till_arg, now, idx, next_page, data,
                   page_data, open_items, output, stderr, err, requests,
                   status_code, raw, served>>

\* `for user in users:` / `for repo in repos:` takes the next subject
NextSubject ==
    /\ pc = "for"
    /\ idx < Len(Subjects)
    /\ idx' = idx + 1
    /\ IF shape \in PagureShapes
       THEN /\ next_page' = 1
            /\ data' = EmptyData
            /\ pc' = "while"
       ELSE /\ pc' = IF shape \in UserShapes THEN "open" ELSE "repo"
            /\ UNCHANGED <<next_page, data>>
    /\ UNCHANGED <<cmd_vars, shape, days_ago, till_arg, now, till, since, page_data,
                   open_items, output, stderr, err, requests, status_code,
                   raw, served>>

\* `return output`
Return ==
    /\ pc = "for"
    /\ idx = Len(Subjects)
    /\ pc' = "done"
    /\ UNCHANGED <<cmd_vars, shape, days_ago, till_arg, now, till, since, idx,
                   next_page, data, page_data, open_items, output, stderr,
                   err, requests, status_code, raw, served>>

\* the request log entry of the fetch now being made: the subject and url
\* asked for, whether the status answered was a 2xx, the cursor answered,
\* and whether the body was decoded (r.json() / resp.json() was reached)
Request(url, resp, decoded) ==
    [subject |-> subject, url |-> url, success |-> Is2xx(resp.status_code),
     next |-> resp.next, decoded |-> decoded]

\* the page the code holds after the call: the decoded items, or nothing
Decoded(resp, decoded) == IF decoded THEN resp.items ELSE <<>>

\* `page_data = get_issues_page_data(next_page, till, since_arg)` under
\* `while next_page:`
PagureIssuesPage ==
    /\ pc = "while"
    /\ shape \in IssueShapes
    /\ Truthy(next_page)
    /\ \E resp \in Responses(Catalogue(IssueItems), MaxRawItems - served,
                             NextCursors(next_page)) :
         /\ page_data' = GetIssuesPageData(resp, till, since)
         /\ requests' = Append(requests,
                Request(next_page, resp, PagureOk(resp.status_code)))
         /\ status_code' = resp.status_code
         /\ raw' = Decoded(resp, PagureOk(resp.status_code))
         /\ served' = served + Len(resp.items)
    /\ pc' = "fold"
    /\ UNCHANGED <<cmd_vars, shape, days_ago, till_arg, now, till, since, idx,
                   next_page, data, open_items, output, stderr, err>>

\* `page_data = get_pull_requests_page_data(next_page, till, since_arg)`
\* under `while next_page:`
PagurePullRequestsPage ==
    /\ pc = "while"
    /\ shape \in PagureShapes \ IssueShapes
    /\ Truthy(next_page)
    /\ \E resp \in Responses(Catalogue(PullRequestItems), MaxRawItems - served,
                             NextCursors(next_page)) :
         /\ page_data' = GetPullRequestsPageData(resp, till, since)
         /\ requests' = Append(requests,
                Request(next_page, resp, PagureOk(resp.status_code)))
         /\ status_code' = resp.status_code
         /\ raw' = Decoded(resp, PagureOk(resp.status_code))
         /\ served' = served + Len(resp.items)
    /\ pc' = "fold"
    /\ UNCHANGED <<cmd_vars, shape, days_ago, till_arg, now, till, since, idx,
                   next_page, data, open_items, output, stderr, err>>

\* the three statements after the page call: records, total, next_page;
\* page_data["total"] raises KeyError when the page carries no "total"
PagureFold ==
    /\ pc = "fold"
    /\ IF "total" \in DOMAIN page_data
       THEN /\ data' = [records |-> FoldRecords(data, page_data),
                        total |-> FoldTotal(data, page_data)]
            /\ next_page' = AdvanceCursor(next_page, page_data)
            /\ pc' = "while"
            /\ UNCHANGED err
       ELSE /\ data' = [data EXCEPT !.records = FoldRecords(data, page_data)]
            /\ pc' = "raised"
            /\ err' = "KeyError"
            /\ UNCHANGED next_page
    /\ page_data' = EmptyData
    /\ raw' = <<>>
    /\ status_code' = Absent
    /\ UNCHANGED <<cmd_vars, shape, days_ago, till_arg, now, till, since, idx,
                   open_items, output, stderr, requests, served>>

\* the subject is stored and left while its cursor still names a page
PagureStoreEarly ==
    /\ pc = "while"
    /\ output' = Store(output, subject, data)
    /\ pc' = "for"
    /\ UNCHANGED <<cmd_vars, shape, days_ago, till_arg, now, till, since, idx,
                   next_page, data, page_data, open_items, stderr, err,
                   requests, status_code, raw, served>>

\* the loop ends on a falsy cursor: `output[subject] = data`
PagureStore ==
    /\ pc = "while"
    /\ ~Truthy(next_page)
    /\ output' = Store(output, subject, data)
    /\ pc' = "for"
    /\ UNCHANGED <<cmd_vars, shape, days_ago, till_arg, now, till, since, idx,
                   next_page, data, page_data, open_items, stderr, err,
                   requests, status_code, raw, served>>

\* `open_issues = get_open_github_tickets(user)` /
\* `open_pull_requests = get_open_github_pull_requests(user)`
GitHubOpenPass ==
    /\ pc = "open"
    /\ \E resp \in Responses(Catalogue(OpenNodes), MaxRawItems - served, {Absent}) :
         LET r == GetOpenGitHub(resp) IN
         /\ open_items' = r.records
         /\ stderr' = stderr \o r.diag
         /\ requests' = Append(requests,
                Request("open", resp, GitHubOk(resp.status_code)))
         /\ status_code' = resp.status_code
         /\ raw' = Decoded(resp, GitHubOk(resp.status_code))
         /\ served' = served + Len(resp.items)
    /\ pc' = "closed"
    /\ UNCHANGED <<cmd_vars, shape, days_ago, till_arg, now, till, since, idx,
                   next_page, data, page_data, output, err>>

\* the closed-items call of an adapter: get_closed_github_*(user, ...) when
\* repo is FALSE, get_closed_github_*_repo(repo, ...) when it is TRUE
ClosedCall(repo) ==
    \E resp \in Responses(Catalogue(ClosedNodes), MaxRawItems - served, {Absent}) :
         LET r == GetClosedGitHub(resp, till, since, repo) IN
         /\ page_data' = [records |-> r.records, total |-> Len(r.records)]
         /\ stderr' = stderr \o r.diag
         /\ IF r.err = "none"
            THEN /\ pc' = "store"
                 /\ UNCHANGED err
            ELSE /\ pc' = "raised"
                 /\ err' = r.err
         /\ requests' = Append(requests,
                Request("closed", resp, GitHubOk(resp.status_code)))
         /\ status_code' = resp.status_code
         /\ raw' = Decoded(resp, GitHubOk(resp.status_code))
         /\ served' = served + Len(resp.items)

\* `closed_issues = get_closed_github_tickets(user, till, since)` /
\* `closed_pull_requests = get_closed_github_pull_requests(user, till, since)`
GitHubClosedPass ==
    /\ pc = "closed"
    /\ ClosedCall(FALSE)
    /\ UNCHANGED <<cmd_vars, shape, days_ago, till_arg, now, till, since, idx,
                   next_page, data, open_items, output>>

\* `closed_issues = get_closed_github_tickets_repo(repo, till, since)` /
\* `closed_pull_requests = get_closed_github_pull_requests_repo(...)`
GitHubRepoPass ==
    /\ pc = "repo"
    /\ ClosedCall(TRUE)
    /\ UNCHANGED <<cmd_vars, shape, days_ago, till_arg, now, till, since, idx,
                   next_page, data, open_items, output>>

\* user_data / data is built and stored in output[subject]
GitHubStore ==
    /\ pc = "store"
    /\ output' = Store(output, subject,
                       IF shape \in UserShapes
                       THEN [records |-> open_items \o page_data.records,
                             total |-> UserTotal(open_items, page_data.records)]
                       ELSE [records |-> page_data.records,
                             total |-> PageTotal(page_data.records)])
    /\ pc' = "for"
    /\ open_items' = <<>>
    /\ page_data' = EmptyData
    /\ raw' = <<>>
    /\ status_code' = Absent
    /\ UNCHANGED <<cmd_vars, shape, days_ago, till_arg, now, till, since, idx,
                   next_page, data, stderr, err, requests, served>>

Next ==
    \/ Enter
    \/ NextSubject
    \/ Return
    \/ PagureIssuesPage
    \/ PagurePullRequestsPage
    \/ PagureFold
    \/ PagureStore
    \/ GitHubOpenPass
    \/ GitHubClosedPass
    \/ GitHubRepoPass
    \/ GitHubStore

Spec == Init /\ [][Next]_vars

\* ------------------------------------------ windows of no or negative length
\* --days-ago is any integer: 0 gives since = till, a negative number gives
\* since > till.  A behaviour of WindowSpec is one adapter call made with
\* such a value.
DaysAgoEdges == {-1, 0}

WindowInit ==
    /\ shape \in Shapes
    /\ NoCommand
    /\ days_ago \in DaysAgoEdges
    /\ till_arg \in TillOpts
    /\ now \in NowOpts
    /\ till = Absent
    /\ since = Absent
    /\ pc = "entry"
    /\ idx = 0
    /\ next_page = Absent
    /\ data = EmptyData
    /\ page_data = EmptyData
    /\ open_items = <<>>
    /\ output = [x \in {} |-> EmptyData]
    /\ stderr = <<>>
    /\ err = "none"
    /\ requests = <<>>
    /\ status_code = Absent
    /\ raw = <<>>
    /\ served = 0

WindowSpec == WindowInit /\ [][Next]_vars

\* ------------------------------------------------- one page, one normalizer
\* A behaviour of PageSpec is one call of get_issues_page_data or
\* get_pull_requests_page_data with the arguments (url, till, since) an
\* adapter passes; shape names the adapter the arguments come from.
PageInit ==
    /\ shape \in PagureShapes
    /\ NoCommand
    /\ days_ago \in DaysAgoOpts
    /\ till_arg \in TillOpts
    /\ now \in NowOpts
    /\ till = DeriveTill(till_arg, now)
    /\ since = DeriveSince(DeriveTill(till_arg, now), days_ago)
    /\ pc = "call"
    /\ idx = 1
    /\ next_page = 1
    /\ data = EmptyData
    /\ page_data = EmptyData
    /\ open_items = <<>>
    /\ output = [x \in {} |-> EmptyData]
    /\ stderr = <<>>
    /\ err = "none"
    /\ requests = <<>>
    /\ status_code = Absent
    /\ raw = <<>>
    /\ served = 0

\* get_issues_page_data(url, till, since) runs and returns
IssuesPageCall ==
    /\ pc = "call"
    /\ shape \in IssueShapes
    /\ \E resp \in Responses(IssuePageItems, MaxPageItems,
                             NextCursors(next_page)) :
         /\ page_data' = GetIssuesPageData(resp, till, since)
         /\ status_code' = resp.status_code
         /\ raw' = Decoded(resp, PagureOk(resp.status_code))
    /\ pc' = "returned"
    /\ UNCHANGED <<cmd_vars, shape, days_ago, till_arg, now, till, since, idx,
                   next_page, data, open_items, output, stderr, err,
                   requests, served>>

\* get_pull_requests_page_data(url, till, since) runs and returns
PullRequestsPageCall ==
    /\ pc = "call"
    /\ shape \in PagureShapes \ IssueShapes
    /\ \E resp \in Responses(PullRequestPageItems, MaxPageItems,
                             NextCursors(next_page)) :
         /\ page_data' = GetPullRequestsPageData(resp, till, since)
         /\ status_code' = resp.status_code
         /\ raw' = Decoded(resp, PagureOk(resp.status_code))
    /\ pc' = "returned"
    /\ UNCHANGED <<cmd_vars, shape, days_ago, till_arg, now, till, since, idx,
                   next_page, data, open_items, output, stderr, err,
                   requests, served>>

PageNext ==
    \/ IssuesPageCall
    \/ PullRequestsPageCall

PageSpec == PageInit /\ [][PageNext]_vars

\* ------------------------------------- the single-file snapshot of the tool
\* A behaviour of LegacySpec is one call of get_github_tickets(users) of
\* src/assignee-finder/assignee_finder.py: one search per user, open issues
\* only, no window and no exclusions.
LegacyShape == "legacy_get_github_tickets"

\* nodes of the snapshot's search query: title and url
LegacyNodes == [title: Titles, url: GitHubUrls]

LegacyEntry(node) == [title |-> node.title, full_url |-> node.url]

\* the `for edge in json_data["data"]["search"]["edges"]` loop
LegacyIssues(edges) == [i \in 1..Len(edges) |-> LegacyEntry(edges[i])]

LegacyInit ==
    /\ shape = LegacyShape
    /\ NoCommand
    /\ days_ago \in DaysAgoOpts
    /\ till_arg \in TillOpts
    /\ now \in NowOpts
    /\ till = Absent
    /\ since = Absent
    /\ pc = "for"
    /\ idx = 0
    /\ next_page = Absent
    /\ data = EmptyData
    /\ page_data = EmptyData
    /\ open_items = <<>>
    /\ output = [x \in {} |-> EmptyData]
    /\ stderr = <<>>
    /\ err = "none"
    /\ requests = <<>>
    /\ status_code = Absent
    /\ raw = <<>>
    /\ served = 0

\* `for user in users:` takes the next user
LegacyNextUser ==
    /\ pc = "for"
    /\ idx < Len(Users)
    /\ idx' = idx + 1
    /\ pc' = "post"
    /\ UNCHANGED <<cmd_vars, shape, days_ago, till_arg, now, till, since, next_page,
                   data, page_data, open_items, output, stderr, err,
                   requests, status_code, raw, served>>

\* the body of the loop: the search is posted; an answer that is ok is
\* turned into the user's entry, any other answer is reported and ends the
\* function with `return output`
LegacyPost ==
    /\ pc = "post"
    /\ \E resp \in Responses(LegacyNodes, MaxRawItems - served, {Absent}) :
         /\ requests' = Append(requests,
                [subject |-> Users[idx], url |-> "open",
                 success |-> Is2xx(resp.status_code), next |-> resp.next,
                 decoded |-> GitHubOk(resp.status_code)])
         /\ served' = served + Len(resp.items)
         /\ IF GitHubOk(resp.status_code)
            THEN /\ output' = Store(output, Users[idx],
                                    [records |-> LegacyIssues(resp.items),
                                     total |-> Len(LegacyIssues(resp.items))])
                 /\ pc' = "for"
                 /\ UNCHANGED stderr
            ELSE /\ stderr' = Append(stderr, Diagnostic(resp.status_code))
                 /\ pc' = "done"
                 /\ UNCHANGED output
    /\ UNCHANGED <<cmd_vars, shape, days_ago, till_arg, now, till, since, idx,
                   next_page, data, page_data, open_items, err, status_code,
                   raw>>

\* `return output` after the last user
LegacyReturn ==
    /\ pc = "for"
    /\ idx = Len(Users)
    /\ pc' = "done"
    /\ UNCHANGED <<cmd_vars, shape, days_ago, till_arg, now, till, since, idx,
                   next_page, data, page_data, open_items, output, stderr,
                   err, requests, status_code, raw, served>>

LegacyNext ==
    \/ LegacyNextUser
    \/ LegacyPost
    \/ LegacyReturn

LegacySpec == LegacyInit /\ [][LegacyNext]_vars

\* ------------------------------------------------- the commands of main.py
\* A behaviour of CmdSpec is one run of get_repos, get_tickets or
\* get_pull_requests: the adapter calls of the enabled platforms, each run by
\* the adapter actions above, then the printing of the report.
Commands == {"get_repos", "get_tickets", "get_pull_requests"}
UserCommands == {"get_tickets", "get_pull_requests"}
Platforms == {"Pagure", "GitHub"}

\* the adapter calls a command makes under `if pagure_enabled:`
PagureCalls(cmd) ==
    CASE cmd = "get_repos" ->
           <<"get_pagure_tickets_repos", "get_pagure_pull_requests_repos">>
      [] cmd = "get_tickets" -> <<"get_pagure_tickets">>
      [] OTHER -> <<"get_pagure_pull_requests">>

\* the adapter calls a command makes under `if github_enabled:`
GitHubCalls(cmd) ==
    CASE cmd = "get_repos" ->
           <<"get_github_tickets_repos", "get_github_pull_requests_repos">>
      [] cmd = "get_tickets" -> <<"get_github_tickets">>
      [] OTHER -> <<"get_github_pull_request">>

Calls(cmd, en) ==
    (IF "Pagure" \in en THEN PagureCalls(cmd) ELSE <<>>)
    \o (IF "GitHub" \in en THEN GitHubCalls(cmd) ELSE <<>>)

CmdInit ==
    /\ command \in Commands
    /\ enabled \in SUBSET Platforms
    /\ remote = "small"
    /\ queue = Calls(command, enabled)
    /\ results = [x \in {} |-> [y \in {} |-> EmptyData]]
    /\ windows = <<>>
    /\ stdout = <<>>
    /\ shape = "none"
    /\ days_ago \in DaysAgoOpts
    /\ till_arg \in TillOpts
    /\ now \in NowOpts
    /\ till = Absent
    /\ since = Absent
    /\ pc = "cmd"
    /\ idx = 0
    /\ next_page = Absent
    /\ data = EmptyData
    /\ page_data = EmptyData
    /\ open_items = <<>>
    /\ output = [x \in {} |-> EmptyData]
    /\ stderr = <<>>
    /\ err = "none"
    /\ requests = <<>>
    /\ status_code = Absent
    /\ raw = <<>>
    /\ served = 0

\* the next adapter is called with (days_ago, till, subjects)
CmdCall ==
    /\ pc = "cmd"
    /\ queue # <<>>
    /\ shape' = Head(queue)
    /\ queue' = Tail(queue)
    /\ pc' = "entry"
    /\ idx' = 0
    /\ output' = [x \in {} |-> EmptyData]
    /\ requests' = <<>>
    /\ UNCHANGED <<days_ago, till_arg, now, till, since, next_page, data,
                   page_data, open_items, stderr, err, status_code, raw,
                   served, command, enabled, remote, results, windows,
                   stdout>>

\* the adapter returned: its mapping is bound to the command's variable; the
\* call took no time or one tick of the clock
CmdCollect ==
    /\ pc = "done"
    /\ results' = Store(results, shape, output)
    /\ windows' = Append(windows, [since |-> since, till |-> till])
    /\ \E tick \in {0, 1} : now' = now + tick
    /\ pc' = "cmd"
    /\ output' = [x \in {} |-> EmptyData]
    /\ requests' = <<>>
    /\ UNCHANGED <<shape, days_ago, till_arg, till, since, idx, next_page,
                   data, page_data, open_items, stderr, err, status_code,
                   raw, served, command, enabled, remote, queue, stdout>>

\* every adapter call has returned: the printing starts
CmdRender ==
    /\ pc = "cmd"
    /\ queue = <<>>
    /\ pc' = "render"
    /\ idx' = 0
    /\ UNCHANGED <<cmd_vars, shape, days_ago, till_arg, now, till, since,
                   next_page, data, page_data, open_items, output, stderr,
                   err, requests, status_code, raw, served>>

\* the lines click.echo prints
Header(text, name) == [kind |-> "header", text |-> text, name |-> name]
Section(name, total) == [kind |-> "section", name |-> name, total |-> total]
Blank == [kind |-> "blank"]

\* `arrow.Arrow.fromtimestamp(issue["assigned"]) if issue["assigned"] else
\* "No date"`
AssignedOn(assigned) ==
    IF Truthy(assigned) THEN [text |-> "date", at |-> assigned]
    ELSE [text |-> "No date", at |-> Absent]

\* "* [{}]({}) - {} - Assigned on: {}"
TicketLine(issue, assigned) ==
    [kind |-> "record", title |-> issue.title, full_url |-> issue.full_url,
     status |-> issue.status, assigned |-> assigned]
\* "* [{}]({}) - {}"
PullRequestLine(pr) ==
    [kind |-> "record", title |-> pr.title, full_url |-> pr.full_url,
     status |-> pr.status]
\* "* [{}]({})"
RepoLine(item) ==
    [kind |-> "record", title |-> item.title, full_url |-> item.full_url]

PagureLine(cmd, record) ==
    IF cmd = "get_tickets"
    THEN TicketLine(record, AssignedOn(record.assigned))
    ELSE PullRequestLine(record)

\* one of the two loops of the Pagure block: the records whose status is
\* "Open" (wantOpen) or is not
RECURSIVE PagurePass(_, _, _, _, _)
PagurePass(records, i, acc, wantOpen, cmd) ==
    IF i > Len(records) THEN acc
    ELSE IF (records[i].status = "Open") = wantOpen
         THEN PagurePass(records, i + 1,
                         Append(acc, PagureLine(cmd, records[i])), wantOpen, cmd)
         ELSE PagurePass(records, i + 1, acc, wantOpen, cmd)

\* the `if pagure_enabled:` block of get_tickets / get_pull_requests
PagureBlock(cmd, d) ==
    <<Section("Pagure", d.total)>>
    \o PagurePass(d.records, 1, <<>>, TRUE, cmd)
    \o PagurePass(d.records, 1, <<>>, FALSE, cmd)
    \o <<Blank>>

\* the loop of the GitHub block; get_tickets reads issue["assigned"], which
\* raises KeyError on a record without that key
RECURSIVE GitHubLoop(_, _, _, _)
GitHubLoop(records, i, acc, cmd) ==
    IF i > Len(records) THEN [err |-> "none", lines |-> acc]
    ELSE IF cmd = "get_tickets"
         THEN IF "assigned" \in DOMAIN records[i]
              THEN GitHubLoop(records, i + 1,
                     Append(acc, TicketLine(records[i], records[i].assigned)),
                     cmd)
              ELSE [err |-> "KeyError", lines |-> acc]
         ELSE GitHubLoop(records, i + 1,
                         Append(acc, PullRequestLine(records[i])), cmd)

\* the `if github_enabled:` block of get_tickets / get_pull_requests;
\* get_pull_requests ends it with an empty line
GitHubBlock(cmd, d) ==
    LET r == GitHubLoop(d.records, 1, <<>>, cmd) IN
    [err |-> r.err,
     lines |-> <<Section("GitHub", d.total)>> \o r.lines
               \o (IF r.err = "none" /\ cmd = "get_pull_requests"
                    THEN <<Blank>> ELSE <<>>)]

RepoLines(records) == [i \in 1..Len(records) |-> RepoLine(records[i])]

\* the `for repo in ..._repos:` loop of get_repos and the empty line after it
RECURSIVE RepoBlocks(_, _, _, _)
RepoBlocks(issues, prs, k, acc) ==
    IF k > Len(Repos) THEN Append(acc, Blank)
    ELSE RepoBlocks(issues, prs, k + 1,
           acc \o <<Header("# Issues/pull requests on", Repos[k]),
                    Section("Issues", issues[Repos[k]].total)>>
               \o RepoLines(issues[Repos[k]].records)
               \o <<Blank, Section("Pull requests", prs[Repos[k]].total)>>
               \o RepoLines(prs[Repos[k]].records)
               \o <<Blank>>)

\* the header of a user is printed while adapter calls are still to be made
RenderUserEarly ==
    /\ pc \in {"cmd", "render"}
    /\ command \in UserCommands
    /\ idx < Len(Users)
    /\ idx' = idx + 1
    /\ stdout' = Append(stdout,
          Header(IF command = "get_tickets" THEN "# Issues assigned to"
                 ELSE "# Pull requests authored by", Users[idx + 1]))
    /\ pc' = "pagure"
    /\ UNCHANGED <<shape, days_ago, till_arg, now, till, since, next_page,
                   data, page_data, open_items, output, stderr, err,
                   requests, status_code, raw, served, command, enabled,
                   remote, queue, results, windows>>

\* `for user in CONFIG["General"]["usernames"]:` prints the user's header
RenderUser ==
    /\ pc = "render"
    /\ command \in UserCommands
    /\ idx < Len(Users)
    /\ idx' = idx + 1
    /\ stdout' = Append(stdout,
          Header(IF command = "get_tickets" THEN "# Issues assigned to"
                 ELSE "# Pull requests authored by", Users[idx + 1]))
    /\ pc' = "pagure"
    /\ UNCHANGED <<shape, days_ago, till_arg, now, till, since, next_page,
                   data, page_data, open_items, output, stderr, err,
                   requests, status_code, raw, served, command, enabled,
                   remote, queue, results, windows>>

\* the Pagure block of the user
RenderPagure ==
    /\ pc = "pagure"
    /\ stdout' = stdout \o
          (IF "Pagure" \in enabled
           THEN PagureBlock(command, results[PagureCalls(command)[1]][Users[idx]])
           ELSE <<>>)
    /\ pc' = "github"
    /\ UNCHANGED <<shape, days_ago, till_arg, now, till, since, idx,
                   next_page, data, page_data, open_items, output, stderr,
                   err, requests, status_code, raw, served, command, enabled,
                   remote, queue, results, windows>>

\* the GitHub block of the user and the empty line that ends the user
RenderGitHub ==
    /\ pc = "github"
    /\ IF "GitHub" \in enabled
       THEN LET r == GitHubBlock(command,
                       results[GitHubCalls(command)[1]][Users[idx]]) IN
            /\ stdout' = stdout \o r.lines
                          \o (IF r.err = "none" THEN <<Blank>> ELSE <<>>)
            /\ err' = r.err
            /\ pc' = IF r.err = "none" THEN "render" ELSE "raised"
       ELSE /\ stdout' = Append(stdout, Blank)
            /\ pc' = "render"
            /\ UNCHANGED err
    /\ UNCHANGED <<shape, days_ago, till_arg, now, till, since, idx,
                   next_page, data, page_data, open_items, output, stderr,
                   requests, status_code, raw, served, command, enabled,
                   remote, queue, results, windows>>

\* the first `if pagure_enabled:` printing block of get_repos
RenderPagureRepos ==
    /\ pc = "render"
    /\ command = "get_repos"
    /\ stdout' = stdout \o
          (IF "Pagure" \in enabled
           THEN RepoBlocks(results[PagureCalls(command)[1]],
                           results[PagureCalls(command)[2]], 1, <<>>)
           ELSE <<>>)
    /\ pc' = "github_repos"
    /\ UNCHANGED <<shape, days_ago, till_arg, now, till, since, idx,
                   next_page, data, page_data, open_items, output, stderr,
                   err, requests, status_code, raw, served, command, enabled,
                   remote, queue, results, windows>>

\* the `if github_enabled:` printing block of get_repos; the command ends
RenderGitHubRepos ==
    /\ pc = "github_repos"
    /\ stdout' = stdout \o
          (IF "GitHub" \in enabled
           THEN RepoBlocks(results[GitHubCalls(command)[1]],
                           results[GitHubCalls(command)[2]], 1, <<>>)
           ELSE <<>>)
    /\ pc' = "exit"
    /\ UNCHANGED <<shape, days_ago, till_arg, now, till, since, idx,
                   next_page, data, page_data, open_items, output, stderr,
                   err, requests, status_code, raw, served, command, enabled,
                   remote, queue, results, windows>>

\* the user loop is over: the command ends
CmdExit ==
    /\ pc = "render"
    /\ command \in UserCommands
    /\ idx = Len(Users)
    /\ pc' = "exit"
    /\ UNCHANGED <<cmd_vars, shape, days_ago, till_arg, now, till, since,
                   idx, next_page, data, page_data, open_items, output,
                   stderr, err, requests, status_code, raw, served>>

CmdNext ==
    \/ CmdCall
    \/ Enter
    \/ NextSubject
    \/ Return
    \/ PagureIssuesPage
    \/ PagurePullRequestsPage
    \/ PagureFold
    \/ PagureStore
    \/ GitHubOpenPass
    \/ GitHubClosedPass
    \/ GitHubRepoPass
    \/ GitHubStore
    \/ CmdCollect
    \/ CmdRender
    \/ RenderUser
    \/ RenderPagure
    \/ RenderGitHub
    \/ RenderPagureRepos
    \/ RenderGitHubRepos
    \/ CmdExit

CmdSpec == CmdInit /\ [][CmdNext]_vars

\* ------------------------------------------------------------------ claims
\* every aggregate the adapter holds: the stored ones and the one in the loop
Aggregates ==
    { output[s] : s \in DOMAIN output }
    \cup (IF pc = "while" THEN {data} ELSE {})

\* every excluded prefix of the platform the adapter talks to
ExcludePrefixes ==
    LET ex == IF shape \in PagureShapes THEN PagureExcludes ELSE GitHubExcludes
    IN  { ex[i] : i \in 1..Len(ex) }

HasPrefix(url, prefix) ==
    /\ Len(prefix) <= Len(url)
    /\ \A k \in 1..Len(prefix) : url[k] = prefix[k]

\* the url of a raw item, whatever listing it comes from
RawUrl(item) ==
    IF "full_url" \in DOMAIN item THEN item.full_url
    ELSE IF "url" \in DOMAIN item THEN item.url
    ELSE PagureUrl \o item.url_path \o <<"/pull-request/", StrOf(item.id)>>

RawExcluded(item) == \E pre \in ExcludePrefixes : HasPrefix(RawUrl(item), pre)

\* C1: in every aggregate, stored for a subject or being accumulated by the
\* pagination loop, total equals the number of records, for every query shape
\* and after any sequence of successful and failed page responses.
C1_TotalIsLength ==
    \A a \in Aggregates : a.total = Len(a.records)

\* an adapter returned, and one subject's aggregate holds three records
C1_Witness ==
    /\ pc = "done"
    /\ \E s \in DOMAIN output : output[s].total = 3 /\ Len(output[s].records) = 3
    /\ \E i \in 1..Len(requests) : ~requests[i].decoded

\* C2: no record whose url starts with a configured exclusion prefix is in
\* any aggregate, in a page result or in the open-pass list, for any adapter.
C2_NoExcludedRecord ==
    /\ \A a \in Aggregates : \A i \in 1..Len(a.records) :
          \A pre \in ExcludePrefixes : ~HasPrefix(a.records[i].full_url, pre)
    /\ \A i \in 1..Len(page_data.records) :
          \A pre \in ExcludePrefixes : ~HasPrefix(page_data.records[i].full_url, pre)
    /\ \A i \in 1..Len(open_items) :
          \A pre \in ExcludePrefixes : ~HasPrefix(open_items[i].full_url, pre)

\* a decoded page carried an excluded item next to one that was kept, and the
\* aggregate was stored
C2_Witness ==
    /\ pc \in {"fold", "store"}
    /\ Len(page_data.records) >= 1
    /\ \E i \in 1..Len(raw) : RawExcluded(raw[i])

\* the requests made for one subject, in the order they were made
SubjectRequests(s) == SelectSeq(requests, LAMBDA r : r.subject = s)

RawClosedAt(item) ==
    IF "closedAt" \in DOMAIN item THEN item.closedAt
    ELSE IF "closed_at" \in DOMAIN item THEN item.closed_at
    ELSE Absent

RawStatus(item) == IF "status" \in DOMAIN item THEN item.status ELSE item.state

RawIsClosed(item) == RawStatus(item) \in {"Closed", "Merged", "CLOSED", "MERGED"}
RawIsOpen(item) == RawStatus(item) \in {"Open", "OPEN"}

RawHasCreation(item) == "date_created" \in DOMAIN item => item.date_created # Absent

\* a page result is held next to the decoded page it was computed from, in a
\* query shape that applies the time window
WindowedPageHeld == pc \in {"fold", "store"}

\* C3: in every query shape that applies the window, a non-excluded closed
\* item with a closed timestamp (and a creation date) is in the page result
\* if and only if since <= closed_at <= till: of a page made of such items,
\* exactly those inside the window are kept.
C3_ClosedKeptIffInWindow ==
    ( /\ WindowedPageHeld
      /\ \A i \in 1..Len(raw) :
            /\ RawIsClosed(raw[i])
            /\ RawClosedAt(raw[i]) # Absent
            /\ RawHasCreation(raw[i])
            /\ ~RawExcluded(raw[i]) )
    => Len(page_data.records) =
         Cardinality({ i \in 1..Len(raw) :
                         since <= RawClosedAt(raw[i]) /\ RawClosedAt(raw[i]) <= till })

\* C4: in the Pagure issue path and the Pagure pull-request path an open item
\* is never dropped by the window, whatever its closed_at holds: of a page
\* made of non-excluded open items with a creation date, all are kept.
C4_OpenNeverDropped ==
    ( /\ pc = "fold"
      /\ shape \in PagureShapes
      /\ \A i \in 1..Len(raw) :
            /\ RawIsOpen(raw[i])
            /\ RawHasCreation(raw[i])
            /\ ~RawExcluded(raw[i]) )
    => Len(page_data.records) = Len(raw)

\* C5: the Pagure loop fetches page 1, 2, ... in cursor order, each once, goes
\* on only from a decoded page that announced the next one, and a subject
\* whose pages all succeeded is stored right after the page without a cursor:
\* a chain that ends after n pages costs exactly n fetches.
C5_ExactlyOneFetchPerPage ==
    shape \in PagureShapes =>
      \A k \in 1..Len(Subjects) :
        LET R == SubjectRequests(Subjects[k]) IN
        /\ \A j \in 1..Len(R) : R[j].url = j
        /\ \A j \in 1..(Len(R) - 1) :
              R[j].decoded /\ R[j].next = j + 1
        /\ ( /\ Subjects[k] \in DOMAIN output
             /\ \A j \in 1..Len(R) : R[j].decoded )
           => (Len(R) >= 1 /\ R[Len(R)].next = Absent)

\* page 1 announced page 2, page 2 announced nothing, the subject is stored
\* after two fetches
C5_Witness ==
    /\ shape \in PagureShapes
    /\ pc = "for"
    /\ idx >= 1
    /\ subject \in DOMAIN output
    /\ LET R == SubjectRequests(subject) IN
         /\ Len(R) = 2
         /\ R[1].decoded /\ R[1].next = 2
         /\ R[2].decoded /\ R[2].next = Absent

\* what a record and a raw item have in common
RecordView(seq) ==
    [i \in 1..Len(seq) |-> [title |-> seq[i].title, full_url |-> seq[i].full_url,
                            status |-> seq[i].status]]
RawView(seq) ==
    [i \in 1..Len(seq) |-> [title |-> seq[i].title, full_url |-> RawUrl(seq[i]),
                            status |-> RawStatus(seq[i])]]

\* a is b with some elements left out, the others in the same order
RECURSIVE IsSubsequence(_, _)
IsSubsequence(a, b) ==
    IF Len(a) = 0 THEN TRUE
    ELSE IF Len(b) = 0 THEN FALSE
    ELSE IF Head(a) = Head(b) THEN IsSubsequence(Tail(a), Tail(b))
    ELSE IsSubsequence(a, Tail(b))

C6_PageIsSubsequence ==
    (pc = "fold" /\ shape \in PagureShapes)
    => IsSubsequence(RecordView(page_data.records), RawView(raw))

C6_Step ==
    /\ (pc = "for" /\ pc' = "while") => data' = EmptyData
    /\ (pc = "fold" /\ pc' = "while") =>
          /\ data'.records = data.records \o page_data.records
          /\ data'.total = data.total + Len(page_data.records)
    /\ (pc = "while" /\ pc' = "for") =>
          /\ subject \in DOMAIN output'
          /\ output'[subject] = data

\* C6: a Pagure aggregate starts empty, each fetched page appends its
\* normalized sequence behind the records of the pages before it, the
\* aggregate is stored as accumulated, and the normalized sequence of a page
\* is an order-preserving subsequence of the page's raw items.
C6_ConcatenationInFetchOrder ==
    []C6_PageIsSubsequence /\ [][C6_Step]_vars

\* scenario A: two records from page 1 are held, page 2 brings one more and
\* no cursor
C6_Witness ==
    /\ pc = "fold"
    /\ shape \in PagureShapes
    /\ next_page = 2
    /\ Len(data.records) = 2
    /\ Len(raw) = 1
    /\ Len(page_data.records) = 1
    /\ page_data.next_page = Absent

\* C7: when the first fetch for a subject returns a non-success status, no
\* exception is raised while that subject is processed and the aggregate
\* stored for it is {records: [], total: 0}, in every query shape.
C7_FirstFetchFailureGivesEmpty ==
    \A k \in 1..Len(Subjects) :
      LET R == SubjectRequests(Subjects[k]) IN
      (Len(R) >= 1 /\ ~R[1].success) =>
        /\ ~(pc = "raised" /\ idx = k)
        /\ Subjects[k] \in DOMAIN output => output[Subjects[k]] = EmptyData

\* C8: every fetch answered with a non-success status puts exactly one line
\* on the error stream, and the line names the status code and its reason.
C8_EveryFailureDiagnosed ==
    /\ Len(stderr) = Cardinality({ i \in 1..Len(requests) : ~requests[i].success })
    /\ (status_code # Absent /\ ~Is2xx(status_code)) =>
          /\ Len(stderr) >= 1
          /\ stderr[Len(stderr)][2] = status_code
          /\ stderr[Len(stderr)][3] = Reason(status_code)

\* C9: on both platforms the body of an answer is decoded and processed if
\* and only if its status is a 2xx.
C9_DecodedIff2xx ==
    \A i \in 1..Len(requests) : requests[i].decoded <=> requests[i].success

\* C10: an item marked closed (Closed / Merged) that has no closed timestamp
\* is skipped without an error: no TypeError is raised, and of a page made of
\* such items nothing is kept.
C10_ClosedWithoutTimestampSkipped ==
    /\ err # "TypeError"
    /\ ( /\ WindowedPageHeld
         /\ \A i \in 1..Len(raw) :
               RawIsClosed(raw[i]) /\ RawClosedAt(raw[i]) = Absent )
       => Len(page_data.records) = 0

\* C11: a raw item without a creation date is skipped by the normalizer, for
\* issue items and for pull-request items: of a decoded Pagure page made of
\* items whose date_created is absent, nothing is kept.
C11_NoCreationDateSkipped ==
    ( /\ pc \in {"fold", "returned"}
      /\ shape \in PagureShapes
      /\ \A i \in 1..Len(raw) : raw[i].date_created = Absent )
    => Len(page_data.records) = 0

\* the positions of the comments that are notifications and contain "assigned"
AssignmentNotices(comments) ==
    { j \in 1..Len(comments) :
        /\ comments[j].notification
        /\ \E k \in 1..Len(comments[j].comment) :
              comments[j].comment[k] = "assigned" }

Latest(S) == CHOOSE j \in S : \A k \in S : k <= j

\* assigned_at as the claim words it
ExpectedAssigned(issue) ==
    LET notices == AssignmentNotices(issue.comments) IN
    IF notices = {} THEN issue.date_created
    ELSE IF issue.comments[Latest(notices)].date_created = Absent
         THEN issue.date_created
         ELSE issue.comments[Latest(notices)].date_created

\* C12: for every issue emitted by the assigned-tickets query, assigned is the
\* date of the last notification comment containing "assigned"; with no such
\* comment, or when that comment has no date, it is the issue's creation
\* date; a non-notification comment containing "assigned" is ignored.  Of a
\* page whose items are all kept, record i carries that value for item i.
C12_AssignedAtFromLastNotice ==
    ( /\ pc \in {"fold", "returned"}
      /\ shape = "get_pagure_tickets"
      /\ Len(page_data.records) = Len(raw) )
    => \A i \in 1..Len(raw) :
          page_data.records[i].assigned = ExpectedAssigned(raw[i])

\* a page of two kept issues: one whose last assignment notice has no date
\* behind a dated one, one whose last comment is a user's "assigned" behind a
\* dated notice
C12_Witness ==
    /\ pc = "returned"
    /\ shape = "get_pagure_tickets"
    /\ Len(raw) = 2
    /\ Len(page_data.records) = 2
    /\ raw[1].comments = <<Assigned(MaxTime - 1), Assigned(Absent)>>
    /\ page_data.records[1].assigned = raw[1].date_created
    /\ raw[2].comments = <<Assigned(MaxTime), UserComment>>
    /\ page_data.records[2].assigned = MaxTime

IsOpenStatus(st) == st \in {"Open", "OPEN"}

\* every open record of the list precedes every record that is not open
OpenFirst(records) ==
    \A i, j \in 1..Len(records) :
        (i < j /\ IsOpenStatus(records[j].status))
        => IsOpenStatus(records[i].status)

\* C13: the authored-pull-request aggregate of every user lists the open pull
\* requests first and the closed / merged ones after them, in the GitHub
\* adapter get_github_pull_request and in the Pagure adapter
\* get_pagure_pull_requests.
C13_OpenPullRequestsFirst ==
    shape \in {"get_github_pull_request", "get_pagure_pull_requests"}
    => \A a \in Aggregates : OpenFirst(a.records)

SubjectIndex(s) == CHOOSE k \in 1..Len(Subjects) : Subjects[k] = s

\* the urls one subject is fetched with, in the order the code asks for them
UrlsInOrder(R) ==
    IF shape \in PagureShapes THEN \A j \in 1..Len(R) : R[j].url = j
    ELSE IF shape \in UserShapes
         THEN /\ Len(R) <= 2
              /\ \A j \in 1..Len(R) : R[j].url = <<"open", "closed">>[j]
         ELSE /\ Len(R) <= 1
              /\ \A j \in 1..Len(R) : R[j].url = "closed"

\* the fetches of one subject are over: the last one answered no cursor or
\* failed, and a GitHub user had both passes
Drained(R) ==
    /\ Len(R) >= 1
    /\ (R[Len(R)].next = Absent \/ ~R[Len(R)].decoded)
    /\ (shape \in GitHubShapes \cap UserShapes) => Len(R) = 2

\* C17: within one adapter call the fetches are made subject by subject in
\* the order of the subject list, no fetch is made for a subject before the
\* fetches of the subject before it are over, and the fetches of one subject
\* are made in cursor order.
C17_SequentialPerSubject ==
    /\ \A i, j \in 1..Len(requests) :
          i < j => SubjectIndex(requests[i].subject)
                     <= SubjectIndex(requests[j].subject)
    /\ \A k \in 1..(Len(Subjects) - 1) :
          SubjectRequests(Subjects[k + 1]) # <<>>
          => Drained(SubjectRequests(Subjects[k]))
    /\ \A k \in 1..Len(Subjects) : UrlsInOrder(SubjectRequests(Subjects[k]))

\* the first subject took two pages, then the second subject was fetched
C17_Witness ==
    /\ shape \in PagureShapes
    /\ Len(requests) = 3
    /\ requests[1].subject = Subjects[1] /\ requests[1].next = 2
    /\ requests[2].subject = Subjects[1] /\ requests[2].url = 2
    /\ requests[3].subject = Subjects[2] /\ requests[3].url = 1

\* no url occurs twice in the list; urls is a sequence of urls
DistinctUrls(urls) ==
    \A i, j \in 1..Len(urls) : i # j => urls[i] # urls[j]

RecordUrls(records) == [i \in 1..Len(records) |-> records[i].full_url]
RawUrls(items) == [i \in 1..Len(items) |-> RawUrl(items[i])]

C18_Step ==
    /\ ( /\ pc = "fold" /\ pc' = "while"
         /\ DistinctUrls(RawUrls(raw))
         /\ DistinctUrls(RecordUrls(data.records)) )
       => DistinctUrls(RecordUrls(data'.records))
    /\ ( /\ pc = "store" /\ pc' = "for"
         /\ DistinctUrls(RecordUrls(open_items))
         /\ DistinctUrls(RecordUrls(page_data.records)) )
       => DistinctUrls(RecordUrls(output'[subject].records))

\* C18: the record list of an aggregate holds each url at most once, also
\* when the remote lists an item on two pages or in both the open pass and
\* the closed pass: folding a page without repeated urls into records without
\* repeated urls, and storing an open list and a closed list that have none,
\* gives records without repeated urls.
C18_NoUrlTwice == [][C18_Step]_vars

C20_Step ==
    ( /\ pc = "fold"
      /\ shape \in PagureShapes
      /\ next_page > 1
      /\ status_code # Absent /\ ~Is2xx(status_code) )
    => /\ pc' = "while"
       /\ next_page' = Absent
       /\ data' = data

\* C20: when the pages before page k > 1 of a subject succeeded and the fetch
\* of page k fails, the Pagure issue loop and the Pagure pull-request loop
\* end without raising and without a further fetch, and the aggregate is the
\* one built from the pages before k, records and total.
C20_FailedPageTruncates == [][C20_Step]_vars

\* the adapter call has returned its mapping
Returned == pc = "done"

\* C16: every adapter call returns a mapping with an entry for every supplied
\* subject, a record list and an integer total, also when fetches fail: a
\* failed fetch does not end the call with an exception, and the keys of the
\* returned mapping are the supplied subjects.
C16_EntryForEverySubject ==
    /\ ~( /\ pc = "raised"
          /\ requests # <<>>
          /\ ~requests[Len(requests)].success )
    /\ Returned =>
          /\ DOMAIN output = { Subjects[k] : k \in 1..Len(Subjects) }
          /\ \A s \in DOMAIN output :
                /\ output[s].total \in Nat
                /\ DOMAIN output[s].records = 1..Len(output[s].records)

\* the lines a rendering step adds to the output
Added == SubSeq(stdout', Len(stdout) + 1, Len(stdout'))

\* title, url and status of the record lines among the given lines
LineViews(lines) ==
    LET recs == SelectSeq(lines, LAMBDA l : l.kind = "record")
    IN  [i \in 1..Len(recs) |->
           [title |-> recs[i].title, full_url |-> recs[i].full_url,
            status |-> recs[i].status]]

\* the open records in their order, then the others in their order
StablePartition(records) ==
    RecordView(SelectSeq(records, LAMBDA r : IsOpenStatus(r.status)))
    \o RecordView(SelectSeq(records, LAMBDA r : ~IsOpenStatus(r.status)))

\* the aggregate of the user being printed, as the named call returned it
Shown(call) == results[call][Users[idx]]

C14_Step ==
    /\ (pc = "pagure" /\ "Pagure" \in enabled)
       => LineViews(Added)
            = StablePartition(Shown(PagureCalls(command)[1]).records)
    /\ (pc = "github" /\ "GitHub" \in enabled)
       => LineViews(Added)
            = StablePartition(Shown(GitHubCalls(command)[1]).records)

\* C14: in the report of get_tickets and get_pull_requests, the lines printed
\* under a platform header of a user are the open records of that user's
\* aggregate in fetch order followed by the records that are not open in
\* fetch order, in the Pagure block and in the GitHub block.
C14_OpenFirstInReport == [][C14_Step]_vars

\* the record lines printed so far
PrintedRecords ==
    Cardinality({ k \in 1..Len(stdout) : stdout[k].kind = "record" })

\* the records of the aggregates get_tickets displays
DisplayedRecords ==
    { <<call, k, i>> \in Shapes \X (1..Len(Users)) \X (1..MaxRawItems) :
        /\ call \in DOMAIN results
        /\ i <= Len(results[call][Users[k]].records) }

\* C15: get_tickets prints one line with title, url and status for every
\* record of every displayed aggregate, with the assignment timestamp where
\* the record has one, and printing a record without one (a GitHub record)
\* does not fail.
C15_EveryRecordRendered ==
    command = "get_tickets" =>
      /\ ~(pc = "raised" /\ stdout # <<>>)
      /\ pc = "exit" => PrintedRecords = Cardinality(DisplayedRecords)
      /\ \A k \in 1..Len(stdout) :
            stdout[k].kind = "record"
            => {"title", "full_url", "status"} \subseteq DOMAIN stdout[k]

\* C19: with no --till given, every adapter call of one run of get_repos,
\* get_tickets or get_pull_requests filters against the same since and till,
\* though the clock advances between the calls.
C19_WindowDerivedOnce ==
    till_arg = Absent
    => \A i, j \in 1..Len(windows) : windows[i] = windows[j]

\* the query shapes whose code compares closed_at with since and with till
BothBoundShapes ==
    PagureShapes \cup {"get_github_tickets_repos",
                       "get_github_pull_requests_repos"}

\* a closed, created, not excluded item closed exactly at since or at till
OnWindowEdge(item) ==
    /\ RawIsClosed(item)
    /\ RawHasCreation(item)
    /\ ~RawExcluded(item)
    /\ RawClosedAt(item) # Absent
    /\ RawClosedAt(item) \in {since, till}

C21_TillEdgeReached ==
    /\ pc = "store"
    /\ shape \in BothBoundShapes \ PagureShapes
    /\ Len(raw) = 1
    /\ OnWindowEdge(raw[1]) /\ RawClosedAt(raw[1]) = till
    /\ Len(page_data.records) = 1

\* the window the adapter derived is inverted
Inverted == pc # "entry" /\ since > till

\* C22: for days_ago >= 0 the derived window has since <= till, for a
\* negative days_ago it is inverted; with an inverted window no closed item
\* is kept, whatever closing times the answers carry: of a page whose closed
\* items all carry a closing time, no closed or merged record is in the page
\* result, in every query shape.
C22_InvertedWindowKeepsNothingClosed ==
    /\ pc # "entry" => (days_ago >= 0 <=> since <= till)
    /\ ( /\ Inverted
         /\ WindowedPageHeld
         /\ \A i \in 1..Len(raw) :
               RawIsClosed(raw[i]) => RawClosedAt(raw[i]) # Absent )
       => \A i \in 1..Len(page_data.records) :
             ~RawIsClosed(page_data.records[i])

\* the n-th last fetch of the call was made for the current subject and was
\* answered with a failure
FailedFetch(n) ==
    /\ Len(requests) > n
    /\ requests[Len(requests) - n].subject = subject
    /\ ~requests[Len(requests) - n].decoded

\* the aggregates of the subjects other than the current one are left alone
OthersKept ==
    /\ DOMAIN output' \subseteq DOMAIN output \cup {subject}
    /\ \A s \in DOMAIN output \ {subject} :
          s \in DOMAIN output' /\ output'[s] = output[s]

C23_Step ==
    /\ (WindowedPageHeld /\ FailedFetch(0))
       => /\ pc' # "raised"
          /\ OthersKept
    /\ (pc = "store" /\ shape \in UserShapes /\ FailedFetch(0))
       => output'[subject].records = open_items
    /\ (pc = "store" /\ shape \in UserShapes /\ FailedFetch(1))
       => output'[subject].records = page_data.records
    /\ (pc' = "done" /\ \E i \in 1..Len(requests) : ~requests[i].decoded)
       => \A k \in 1..Len(Subjects) : SubjectRequests(Subjects[k]) # <<>>

\* C23: a failed fetch for one subject stays with that subject: the step
\* that takes the failed page into the aggregate does not end the call and
\* leaves the aggregates of the other subjects as they were, a call in which
\* a fetch failed still fetches for every subject before it returns, and in
\* the GitHub two-pass adapters the records of the pass that succeeded are
\* the aggregate of a user whose other pass failed.
C23_FailureStaysLocal == [][C23_Step]_vars

\* every adapter call of the command has been made and has returned
FetchesDone ==
    /\ queue = <<>>
    /\ DOMAIN results =
          { Calls(command, enabled)[k] : k \in 1..Len(Calls(command, enabled)) }

\* the command was ended by an exception out of an adapter call
AbortedInFetch == pc = "raised" /\ shape \notin DOMAIN results

\* C24: in every command nothing is on standard output until every adapter
\* call of every enabled platform has returned, and a command that an
\* exception ends during an adapter call has printed nothing.
C24_NothingPrintedBeforeFetchesDone ==
    /\ stdout # <<>> => FetchesDone
    /\ AbortedInFetch => stdout = <<>>

\* a report with a record line, printed after two or more adapter calls
C24_Witness ==
    /\ Len(windows) >= 2
    /\ \E i \in 1..Len(stdout) : stdout[i].kind = "record"

\* the second adapter call of a command raised: nothing is printed
C24_AbortReached ==
    /\ AbortedInFetch
    /\ Len(windows) >= 1
    /\ stdout = <<>>

\* the number of record lines that follow one another from line i on
RECURSIVE RecordRun(_, _)
RecordRun(lines, i) ==
    IF i > Len(lines) \/ lines[i].kind # "record" THEN 0
    ELSE 1 + RecordRun(lines, i + 1)

\* C25: in every section of the report the count in the section header is
\* the number of record lines printed under it, in the Pagure sections (two
\* loops over the aggregate), the GitHub sections and the repository
\* sections (one loop).
C25_HeaderCountIsLinesPrinted ==
    \A i \in 1..Len(stdout) :
        stdout[i].kind = "section"
            => RecordRun(stdout, i + 1) = stdout[i].total

TypeOK ==
    /\ shape \in Shapes \cup {LegacyShape, "none"}
    /\ pc \in {"entry", "for", "while", "fold", "open", "closed", "repo",
               "store", "done", "raised", "call", "returned", "post",
               "cmd", "render", "pagure", "github", "github_repos", "exit"}
    /\ idx \in 0..Len(Subjects)
    /\ served \in 0..MaxRawItems

====
